---- MODULE Spec2Model ----
(***************************************************************************)
(* State-machine model of the GNSS-time BLE peripheral firmware            *)
(* (src/src/bin/sensor_reading.rs): the connection supervisor run_ble, the *)
(* GATT event dispatcher gatt_events_task, the NMEA framer                 *)
(* gnss_notify_task with the adapter send_nmea_msg, the CurrentTime        *)
(* encoding and the link runner ble_background_task.                       *)
(*                                                                         *)
(* The tasks are cooperative futures polled by one executor: a task runs   *)
(* from one .await to the next without interleaving, so every action below *)
(* is the code between two suspension points.  Bytes are integers 0..255;  *)
(* Rust's 0-based index i is the TLA+ sequence index i + 1.                *)
(***************************************************************************)
EXTENDS Integers, Sequences, FiniteSets, TLC

(***************************************************************************)
(* Bounds of the model.                                                    *)
(***************************************************************************)
\* inputs the environment offers in one run: serial chunks, serial read
\* errors and peer requests
MaxInputs == 2

(***************************************************************************)
(* Program constants.                                                      *)
(***************************************************************************)
\* let mut nmea_buf = [0u8; 82];
NMEA_BUF_LEN == 82
\* "\r\n".as_bytes()
CR == 13
LF == 10
\* const ENABLE_GNSS_MODULE: &[u8; 14] = b"$PCAS04,3*1A\r\n";
ENABLE_GNSS_MODULE == <<36, 80, 67, 65, 83, 48, 52, 44, 51, 42, 49, 65, 13, 10>>

(***************************************************************************)
(* Byte helpers.                                                           *)
(***************************************************************************)
RECURSIVE BitXor(_, _)
BitXor(a, b) ==
    IF a = 0 THEN b
    ELSE IF b = 0 THEN a
    ELSE (((a % 2) + (b % 2)) % 2) + (2 * BitXor(a \div 2, b \div 2))

RECURSIVE XorAll(_)
XorAll(s) == IF s = <<>> THEN 0 ELSE BitXor(Head(s), XorAll(Tail(s)))

IsDigit(b) == b \in 48..57

IsHexDigit(b) == b \in 48..57 \/ b \in 65..70 \/ b \in 97..102

HexVal(b) == IF b \in 48..57 THEN b - 48
             ELSE IF b \in 65..70 THEN b - 55
             ELSE b - 87

AllDigits(s) == \A i \in 1..Len(s) : IsDigit(s[i])

RECURSIVE ParseNum(_)
ParseNum(s) ==
    IF s = <<>> THEN 0
    ELSE (10 * ParseNum(SubSeq(s, 1, Len(s) - 1))) + (s[Len(s)] - 48)

\* index of the first b in s at or after position from, 0 when there is none
FirstIndex(s, b, from) ==
    LET hits == {i \in from..Len(s) : s[i] = b}
    IN  IF hits = {} THEN 0 ELSE CHOOSE i \in hits : \A j \in hits : i <= j

\* the comma-separated fields of s
RECURSIVE SplitFields(_)
SplitFields(s) ==
    LET c == FirstIndex(s, 44, 1)
    IN  IF c = 0 THEN <<s>>
        ELSE <<SubSeq(s, 1, c - 1)>> \o SplitFields(SubSeq(s, c + 1, Len(s)))

(***************************************************************************)
(* Sentence decoder: nmea::parse_bytes as the framer calls it.             *)
(* A sentence is '$' talker(2) type(3) ',' data '*' hex hex; what follows  *)
(* the checksum is not looked at.  The checksum is the XOR of the bytes    *)
(* between '$' and '*'.                                                    *)
(***************************************************************************)
NoRecord ==
    [ok |-> FALSE, kind |-> "none", has_dt |-> FALSE,
     year |-> 0, month |-> 0, day |-> 0, hour |-> 0, minute |-> 0, second |-> 0]

IsLeapYear(y) == (y % 4 = 0 /\ y % 100 # 0) \/ y % 400 = 0

DaysInMonth(y, m) ==
    IF m \in {4, 6, 9, 11} THEN 30
    ELSE IF m = 2 THEN (IF IsLeapYear(y) THEN 29 ELSE 28)
    ELSE 31

\* hhmmss with an optional fraction ".ff"
TimeFieldOk(f) ==
    /\ Len(f) >= 6
    /\ AllDigits(SubSeq(f, 1, 6))
    /\ (Len(f) > 6) => (f[7] = 46 /\ AllDigits(SubSeq(f, 8, Len(f))))
    /\ ParseNum(SubSeq(f, 1, 2)) < 24
    /\ ParseNum(SubSeq(f, 3, 4)) < 60
    /\ ParseNum(SubSeq(f, 5, 6)) < 60

\* the ZDA body: time, day, month, year, zone hours, zone minutes; an empty
\* field is an absent value, and utc_date_time() is Some only for a
\* complete, valid calendar date and time
parse_zda(data) ==
    LET f == SplitFields(data)
    IN  IF Len(f) # 6 THEN NoRecord
        ELSE
        LET tOk == f[1] = <<>> \/ TimeFieldOk(f[1])
            dOk == f[2] = <<>> \/ (Len(f[2]) = 2 /\ AllDigits(f[2]))
            mOk == f[3] = <<>> \/ (Len(f[3]) = 2 /\ AllDigits(f[3]))
            yOk == f[4] = <<>> \/ (Len(f[4]) = 4 /\ AllDigits(f[4]))
        IN  IF ~(tOk /\ dOk /\ mOk /\ yOk) THEN NoRecord
            ELSE
            LET y == ParseNum(f[4])
                m == ParseNum(f[3])
                d == ParseNum(f[2])
                complete == f[1] # <<>> /\ f[2] # <<>> /\ f[3] # <<>> /\ f[4] # <<>>
                valid == m \in 1..12 /\ d >= 1 /\ d <= DaysInMonth(y, m)
            IN  IF complete /\ valid
                THEN [ok |-> TRUE, kind |-> "ZDA", has_dt |-> TRUE,
                      year |-> y, month |-> m, day |-> d,
                      hour |-> ParseNum(SubSeq(f[1], 1, 2)),
                      minute |-> ParseNum(SubSeq(f[1], 3, 4)),
                      second |-> ParseNum(SubSeq(f[1], 5, 6))]
                ELSE [NoRecord EXCEPT !.ok = TRUE, !.kind = "ZDA"]

\* sentence types other than ZDA that the decoder knows: GGA, GLL, RMC
OtherKinds == {<<71, 71, 65>>, <<71, 76, 76>>, <<82, 77, 67>>}

parse_bytes(frame) ==
    LET star == FirstIndex(frame, 42, 8)
    IN  IF \/ Len(frame) < 10
           \/ \E i \in 1..Len(frame) : frame[i] > 127
           \/ frame[1] # 36
           \/ frame[7] # 44
           \/ star = 0
           \/ star + 2 > Len(frame)
        THEN NoRecord
        ELSE IF ~(IsHexDigit(frame[star + 1]) /\ IsHexDigit(frame[star + 2]))
        THEN NoRecord
        ELSE IF (16 * HexVal(frame[star + 1])) + HexVal(frame[star + 2])
                    # XorAll(SubSeq(frame, 2, star - 1))
        THEN NoRecord
        ELSE IF SubSeq(frame, 4, 6) = <<90, 68, 65>>
        THEN parse_zda(SubSeq(frame, 8, star - 1))
        ELSE IF SubSeq(frame, 4, 6) \in OtherKinds
        THEN [NoRecord EXCEPT !.ok = TRUE, !.kind = "other"]
        ELSE NoRecord

(***************************************************************************)
(* CurrentTime: the 10-byte Current Time characteristic value.             *)
(***************************************************************************)
\* CurrentTime::from with a truncated year
CurrentTime_from_u8year(d) ==
    [year |-> d.year % 256, month |-> d.month % 256, day |-> d.day % 256,
     hours |-> d.hour % 256, minutes |-> d.minute % 256, seconds |-> d.second % 256,
     day_of_week |-> 0, fractions_256 |-> 0, adj_reason |-> 0]

\* CurrentTime::from: `as u16` and `as u8` keep the low bits
CurrentTime_from(d) ==
    [year |-> d.year % 65536, month |-> d.month % 256, day |-> d.day % 256,
     hours |-> d.hour % 256, minutes |-> d.minute % 256, seconds |-> d.second % 256,
     day_of_week |-> 0, fractions_256 |-> 0, adj_reason |-> 0]

\* to_bytes with the year's bytes swapped
to_bytes_be(c) ==
    <<c.year \div 256, c.year % 256, c.month, c.day, c.hours, c.minutes, c.seconds,
      c.day_of_week, c.fractions_256, c.adj_reason>>

\* to_bytes: the #[repr(C)] struct reinterpreted as [u8; 10]; the u16 year
\* lies in memory low byte first on the little-endian Cortex-M4
to_bytes(c) ==
    <<c.year % 256, c.year \div 256, c.month, c.day, c.hours, c.minutes, c.seconds,
      c.day_of_week, c.fractions_256, c.adj_reason>>

(***************************************************************************)
(* What the GNSS module can put on the serial line.                        *)
(***************************************************************************)
\* "$GPZDA,201530.00,04,07,2023,00,00*63\r\n": a time sentence, checksum right
ZDA_SENTENCE ==
    <<36, 71, 80, 90, 68, 65, 44, 50, 48, 49, 53, 51, 48, 46, 48, 48, 44, 48, 52,
      44, 48, 55, 44, 50, 48, 50, 51, 44, 48, 48, 44, 48, 48, 42, 54, 51, 13, 10>>

\* "$GPZDA,201530.00,04,07,2023,00,00*6B\r\n": the same sentence ending *6B
ZDA_6B_SENTENCE ==
    <<36, 71, 80, 90, 68, 65, 44, 50, 48, 49, 53, 51, 48, 46, 48, 48, 44, 48, 52,
      44, 48, 55, 44, 50, 48, 50, 51, 44, 48, 48, 44, 48, 48, 42, 54, 66, 13, 10>>

\* "$GPZDA,,,,,,*48\r\n": a time sentence before the receiver has a fix
ZDA_EMPTY_SENTENCE ==
    <<36, 71, 80, 90, 68, 65, 44, 44, 44, 44, 44, 44, 42, 52, 56, 13, 10>>

\* "$GPGLL,4916.45,N,12311.12,W,225444,A,*1D\r\n": a position sentence
GLL_SENTENCE ==
    <<36, 71, 80, 71, 76, 76, 44, 52, 57, 49, 54, 46, 52, 53, 44, 78, 44, 49, 50,
      51, 49, 49, 46, 49, 50, 44, 87, 44, 50, 50, 53, 52, 52, 52, 44, 65, 44, 42,
      49, 68, 13, 10>>

\* 80 'A's and a CR: one byte short of the buffer's capacity, so that the
\* byte after it decides between an 82-byte frame and 82 unterminated bytes
LONG_LINE == [i \in 1..(NMEA_BUF_LEN - 1) |-> IF i = NMEA_BUF_LEN - 1 THEN CR ELSE 65]

SerialChunks ==
    {ZDA_SENTENCE, ZDA_6B_SENTENCE, ZDA_EMPTY_SENTENCE, GLL_SENTENCE, LONG_LINE,
     <<CR, LF>>, <<LF>>, <<65>>}

(***************************************************************************)
(* What the peer can send on a connection.                                 *)
(***************************************************************************)
Handles == {"level", "status"}

NoEvent == [kind |-> "none", handle |-> "none", data |-> 0]

PeerRequests ==
    {[kind |-> "Read", handle |-> h, data |-> 0] : h \in Handles}
    \cup {[kind |-> "Write", handle |-> h, data |-> d] : h \in Handles, d \in {0, 1}}
    \cup {[kind |-> "OtherGatt", handle |-> "none", data |-> 0],
          [kind |-> "OtherConn", handle |-> "none", data |-> 0]}

Disconnected == [kind |-> "Disconnected", handle |-> "none", data |-> 0]

(***************************************************************************)
(* State.                                                                  *)
(***************************************************************************)
VARIABLES
    sup,            \* run_ble: "advertising" | "connected" | "fatal"
    panic,          \* why the device halted, "none" while it runs
    conn,           \* GattConnections run_ble holds: 0 none, 1 the peer's
    inputs,         \* inputs the environment has offered so far
    gatt_pc,        \* gatt_events_task: "none" | "next" | "send" | "done"
    gatt_ev,        \* the event conn.next() returned last
    replies,        \* replies sent for gatt_ev
    status,         \* attribute table: BatteryService.status
    time_attr,      \* attribute table: GnssService.time
    read_value,     \* the value the reply to the Read gatt_ev carries, <<>> none
    status_written, \* data of the last Write(status) of this epoch, -1 none
    gnss_pc,        \* gnss_notify_task: "none" | "enable" | "read" | "notify"
    nmea_buf,       \* [u8; 82]
    buf_idx,        \* fill index
    rx_line,        \* bytes the GNSS module has sent and the UART not yet read
    tx_writes,      \* what has been written to the module in this epoch
    appended,       \* bytes stored in nmea_buf since buf_idx was last 0
    last_op,        \* what the framer's last loop iteration did
    handed,         \* the frame last handed to nmea::parse_bytes
    handed_acc,     \* `appended` as it was when that frame was handed over
    stored,         \* indices (1-based) of nmea_buf written in this epoch
    pre_error,      \* of those, the ones whose byte is from before the last
                    \* read error
    notify_arg,     \* payload of the notify call in progress, <<>> none
    notified,       \* payload of the last notification that was sent
    n_frames,       \* terminated frames handed to the decoder in this epoch
    n_rejected,     \* of those, the ones parse_bytes rejected
    n_adapted,      \* of those, the ones send_nmea_msg was called for
    n_time,         \* time records with a date-time given to send_nmea_msg
    n_notify,       \* notify calls made in this epoch
    dt,             \* a NaiveDateTime given to CurrentTime::from
    ct,             \* to_bytes() of it, <<>> before the call
    feed,           \* a byte sequence given to the framer in two ways
    by_byte,        \* the framer's run on it, one byte arriving at a time
    by_bulk,        \* the framer's run on it, all bytes arriving together
    beacon_pc,      \* beacon: "none" | "advertise" | "timer" | "push" | "halted"
    update_count,   \* u32, as <<high half, low half>>
    adv_data,       \* the vendor payload encoded into adv_data last
    adv_live,       \* the vendor payload the controller advertises, <<>> none
    adv_starts,     \* calls of peripheral.advertise that returned Ok
    now_ms,         \* milliseconds since `start`: u64, as four 16-bit limbs
    n_updates       \* beacon updates made in this run

vars ==
    <<sup, panic, conn, inputs, gatt_pc, gatt_ev, replies, status,
      time_attr, read_value, status_written, gnss_pc, nmea_buf, buf_idx,
      rx_line, tx_writes, appended, last_op, handed, handed_acc, stored,
      pre_error, notify_arg, notified, n_frames, n_rejected, n_adapted, n_time,
      n_notify, dt, ct, feed, by_byte, by_bulk, beacon_pc, update_count,
      adv_data, adv_live, adv_starts, now_ms, n_updates>>

supVars == <<sup, panic, conn>>
gattVars == <<gatt_pc, gatt_ev, replies, read_value, status_written>>
framerVars ==
    <<nmea_buf, buf_idx, appended, last_op, handed, handed_acc, stored, pre_error>>
adapterVars == <<notify_arg, notified, n_notify>>
countVars == <<n_frames, n_rejected, n_adapted, n_time>>
timeVars == <<dt, ct>>
chunkVars == <<feed, by_byte, by_bulk>>
beaconVars ==
    <<beacon_pc, update_count, adv_data, adv_live, adv_starts, now_ms, n_updates>>

ZeroBuf == [i \in 1..NMEA_BUF_LEN |-> 0]

NoDateTime ==
    [year |-> 0, month |-> 0, day |-> 0, hour |-> 0, minute |-> 0, second |-> 0]

\* the state after main has built the stack and run_ble has called advertise
InitSystem ==
    /\ sup = "advertising"
    /\ panic = "none"
    /\ conn = 0
    /\ inputs = 0
    /\ gatt_pc = "none"
    /\ gatt_ev = NoEvent
    /\ replies = 0
    /\ status = 0
    /\ time_attr = [i \in 1..10 |-> 0]
    /\ read_value = <<>>
    /\ status_written = -1
    /\ gnss_pc = "none"
    /\ nmea_buf = ZeroBuf
    /\ buf_idx = 0
    /\ rx_line = <<>>
    /\ tx_writes = <<>>
    /\ appended = <<>>
    /\ last_op = "none"
    /\ handed = <<>>
    /\ handed_acc = <<>>
    /\ stored = {}
    /\ pre_error = {}
    /\ notify_arg = <<>>
    /\ notified = <<>>
    /\ n_frames = 0
    /\ n_rejected = 0
    /\ n_adapted = 0
    /\ n_time = 0
    /\ n_notify = 0

\* the framer before its first read, with the frames it has emitted
NoRun == [buf |-> ZeroBuf, idx |-> 0, frames |-> <<>>, halted |-> FALSE]

\* what a run of the framer has emitted
Outcome(st) == [done |-> TRUE, frames |-> st.frames, halted |-> st.halted]

NoOutcome == [done |-> FALSE, frames |-> <<>>, halted |-> FALSE]

\* the beacon binary is not the one that runs
BeaconOff ==
    /\ beacon_pc = "none"
    /\ update_count = <<0, 0>>
    /\ adv_data = <<>>
    /\ adv_live = <<>>
    /\ adv_starts = 0
    /\ now_ms = <<0, 0, 0, 0>>
    /\ n_updates = 0

Init ==
    /\ InitSystem
    /\ dt = NoDateTime
    /\ ct = <<>>
    /\ feed = <<>>
    /\ by_byte = NoOutcome
    /\ by_bulk = NoOutcome
    /\ BeaconOff

\* no task is between two of its suspension points
Settled == sup # "fatal" /\ gatt_pc # "done"

\* a connection that outlives the arm it was accepted in
conn_kept(c) == c

\* `conn` is a local of the Ok(conn) arm: it is dropped where the arm ends
conn_dropped(c) == 0

\* a buffer that lives on from one epoch to the next
static_nmea_buf(old) == old

\* let mut nmea_buf = [0u8; 82] is a local of gnss_notify_task: each future
\* has its own, zeroed, whatever the one before it held
fresh_nmea_buf(old) == ZeroBuf

\* a task that goes on running after select has returned
future_detached(pc) == pc

\* select(gatt, gnss) owns both futures: the one that has not finished is
\* dropped at its .await when select returns
future_dropped(pc) == "none"

\* the futures of an epoch are dropped: their locals no longer exist
TasksGone ==
    /\ conn' = conn_dropped(conn)
    /\ gatt_pc' = "none"
    /\ gatt_ev' = NoEvent
    /\ replies' = 0
    /\ read_value' = <<>>
    /\ status_written' = -1
    /\ gnss_pc' = future_dropped(gnss_pc)
    /\ nmea_buf' = fresh_nmea_buf(nmea_buf)
    /\ buf_idx' = 0
    /\ tx_writes' = <<>>
    /\ appended' = <<>>
    /\ last_op' = "none"
    /\ handed' = <<>>
    /\ handed_acc' = <<>>
    /\ stored' = {}
    /\ pre_error' = {}
    /\ notify_arg' = <<>>
    /\ notified' = <<>>
    /\ n_frames' = 0
    /\ n_rejected' = 0
    /\ n_adapted' = 0
    /\ n_time' = 0
    /\ n_notify' = 0

\* a handler that lets run_ble start over
panic_restarts(s) == "advertising"

\* the panic handler ends in cortex_m::asm::udf(): it never returns
panic_handler(s) == "fatal"

\* a panic: the panic handler stops the device, nothing runs any more
Halt(why) ==
    /\ sup' = panic_handler(sup)
    /\ panic' = why
    /\ TasksGone
    /\ UNCHANGED <<status, time_attr, timeVars,
                   chunkVars, beaconVars>>

(***************************************************************************)
(* run_ble: the supervisor loop.                                           *)
(***************************************************************************)
\* a framer that starts with its read loop
gnss_first_await_read == "read"

\* gnss_notify_task runs up to its first .await, the enable write
gnss_first_await == "enable"

\* advertise() returns Ok(conn): both tasks are created and select polls
\* them, gatt first up to conn.next().await, gnss up to the enable write
AdvertiseAccept ==
    /\ sup = "advertising"
    /\ sup' = "connected"
    /\ conn' = conn + 1
    /\ gatt_pc' = "next"
    /\ gnss_pc' = gnss_first_await
    /\ UNCHANGED <<panic, inputs, gatt_ev, replies, status, time_attr, read_value,
                   status_written, rx_line, tx_writes, framerVars, adapterVars,
                   countVars, timeVars,
                   chunkVars, beaconVars>>

\* advertise() returns Err(e): panic!("[adv] error")
AdvertiseFail ==
    /\ sup = "advertising"
    /\ Halt("advertise")
    /\ UNCHANGED <<inputs, rx_line>>

\* select with both futures pending but one
select_join(gatt_done, gnss_done) == gatt_done /\ gnss_done

\* select(gatt, gnss): ready as soon as either future is
select_done(gatt_done, gnss_done) == gatt_done \/ gnss_done

\* select returned: the match arm ends, which drops both futures and conn
\* (the cancelled serial read loses the bytes still in flight), and the loop
\* calls advertise again
EpochEnd ==
    /\ sup = "connected"
    /\ select_done(gatt_pc = "done", gnss_pc = "done")
    /\ sup' = "advertising"
    /\ TasksGone
    /\ rx_line' = <<>>
    /\ UNCHANGED <<panic, inputs, status, time_attr, timeVars,
                   chunkVars, beaconVars>>

(***************************************************************************)
(* ble_background_task: the link runner.                                   *)
(***************************************************************************)
\* runner.run() returns Err(e): panic!
RunnerFail ==
    /\ Settled
    /\ Halt("runner")
    /\ UNCHANGED <<inputs, rx_line>>

(***************************************************************************)
(* gatt_events_task: the dispatcher.                                       *)
(***************************************************************************)
\* the value of an attribute in the server's table
AttrValue(h) ==
    IF h = "level" THEN <<10>>
    ELSE IF h = "status" THEN <<status>>
    ELSE time_attr

\* the data of the last Write to Status the dispatcher has received
WrittenAfter(ev) ==
    IF ev.kind = "Write" /\ ev.handle = "status" THEN ev.data ELSE status_written

\* a loop that also gives up when an event cannot be accepted
gatt_breaks_on_error(ev, accepted) == ev.kind = "Disconnected" \/ ~accepted

\* GattConnectionEvent::Disconnected { reason } => break reason
gatt_breaks(ev, accepted) == ev.kind = "Disconnected"

\* conn.next() returns ev; for a Gatt event the match logs, then
\* event.accept() either builds the reply (the server applies a Write and
\* reads the value for a Read) or fails, which is only logged
GattNext(ev, accepted) ==
    /\ Settled
    /\ gatt_pc = "next"
    /\ ev = Disconnected \/ inputs < MaxInputs
    /\ ev.kind \in {"Disconnected", "OtherConn"} => accepted
    /\ inputs' = IF ev = Disconnected THEN inputs ELSE inputs + 1
    /\ gatt_ev' = ev
    /\ replies' = 0
    /\ IF gatt_breaks(ev, accepted)
       THEN /\ gatt_pc' = "done"
            /\ read_value' = <<>>
            /\ status_written' = -1
            /\ UNCHANGED status
       ELSE IF ev.kind = "OtherConn" \/ ~accepted
       THEN /\ gatt_pc' = "next"
            /\ read_value' = <<>>
            /\ status_written' = WrittenAfter(ev)
            /\ UNCHANGED status
       ELSE /\ gatt_pc' = "send"
            /\ status_written' = WrittenAfter(ev)
            /\ status' = IF ev.kind = "Write" /\ ev.handle = "status"
                         THEN ev.data ELSE status
            /\ read_value' = IF ev.kind = "Read" THEN AttrValue(ev.handle) ELSE <<>>
    /\ UNCHANGED <<supVars, time_attr, gnss_pc, rx_line, tx_writes, framerVars,
                   adapterVars, countVars, timeVars,
                   chunkVars, beaconVars>>

\* reply.send().await completes
GattSendDone ==
    /\ Settled
    /\ gatt_pc = "send"
    /\ gatt_pc' = "next"
    /\ replies' = replies + 1
    /\ UNCHANGED <<supVars, inputs, gatt_ev, status, time_attr, read_value,
                   status_written, gnss_pc, rx_line, tx_writes, framerVars,
                   adapterVars, countVars, timeVars,
                   chunkVars, beaconVars>>

(***************************************************************************)
(* send_nmea_msg: the adapter.                                             *)
(***************************************************************************)
\* an adapter that notifies for every ZDA record
adapter_notifies_any_zda(rec) == rec.kind = "ZDA"

\* ZDA(zda_data) with utc_date_time() == Some(dt); anything else only logs
adapter_notifies(rec) == rec.kind = "ZDA" /\ rec.has_dt

\* the argument of gnss_service.time.notify with the year's bytes swapped
notify_payload_be(rec) == to_bytes_be(CurrentTime_from(rec))

\* the argument of gnss_service.time.notify
notify_payload(rec) == to_bytes(CurrentTime_from(rec))

(***************************************************************************)
(* gnss_notify_task: the framer.                                           *)
(***************************************************************************)
\* a terminator test that looks at the last byte only
nmea_sentence_terminated_lf(buf, idx) == buf[idx + 1] = LF

\* buf_idx > 0 && nmea_buf[buf_idx - 1..buf_idx + 1] == *"\r\n".as_bytes()
nmea_sentence_terminated(buf, idx) ==
    idx > 0 /\ buf[idx] = CR /\ buf[idx + 1] = LF

\* &nmea_buf[..buf_idx + 1]
frame_slice(buf, idx) == SubSeq(buf, 1, idx + 1)

\* &mut nmea_buf[buf_idx..buf_idx + 1] does not panic
read_slice_in_bounds(idx) == idx + 1 <= NMEA_BUF_LEN

\* a framer that hands every frame to the adapter
adapter_called_always(rec) == TRUE

\* if let Ok(valid_nmea) = parsed { send_nmea_msg(...) }
adapter_called(rec) == rec.ok

\* the frame in buf is parsed, buf_idx is reset and an accepted record goes
\* to send_nmea_msg, which for a time record calls notify and awaits it
Deliver(buf, acc, op, terminated) ==
    LET frame == frame_slice(buf, buf_idx)
        rec == parse_bytes(frame)
        called == adapter_called(rec)
        one == IF terminated THEN 1 ELSE 0
    IN  /\ nmea_buf' = buf
        /\ handed' = frame
        /\ handed_acc' = acc
        /\ stored' = IF terminated THEN stored \cup {buf_idx + 1} ELSE stored
        /\ pre_error' = IF terminated THEN pre_error \ {buf_idx + 1} ELSE pre_error
        /\ last_op' = op
        /\ buf_idx' = 0
        /\ appended' = <<>>
        /\ n_frames' = n_frames + one
        /\ n_rejected' = IF rec.ok THEN n_rejected ELSE n_rejected + one
        /\ n_adapted' = IF called THEN n_adapted + one ELSE n_adapted
        /\ n_time' = IF rec.ok /\ rec.kind = "ZDA" /\ rec.has_dt
                     THEN n_time + 1 ELSE n_time
        /\ IF called /\ adapter_notifies(rec)
           THEN /\ gnss_pc' = "notify"
                /\ notify_arg' = notify_payload(rec)
                /\ time_attr' = notify_payload(rec)
                /\ n_notify' = n_notify + 1
           ELSE /\ gnss_pc' = "read"
                /\ UNCHANGED <<notify_arg, time_attr, n_notify>>
        /\ UNCHANGED <<supVars, gattVars, status, tx_writes, notified>>

\* the enable command has been written: the buffer is created and the
\* first read is started
GnssEnableDone ==
    /\ Settled
    /\ gnss_pc = "enable"
    /\ gnss_pc' = "read"
    /\ tx_writes' = Append(tx_writes, ENABLE_GNSS_MODULE)
    /\ nmea_buf' = fresh_nmea_buf(nmea_buf)
    /\ buf_idx' = 0
    /\ UNCHANGED <<supVars, inputs, gattVars, status, time_attr, rx_line, appended,
                   last_op, handed, handed_acc, stored, pre_error, adapterVars,
                   countVars, timeVars,
                   chunkVars, beaconVars>>

\* gnss_uarte_tx.write returns Err: panic!("[main] couldn't enable GNSS module")
GnssEnableFail ==
    /\ Settled
    /\ gnss_pc = "enable"
    /\ Halt("gnss_enable")
    /\ UNCHANGED <<inputs, rx_line>>

\* read_until_idle returns Ok(1) with the next byte stored at buf_idx
RxByte ==
    /\ Settled
    /\ gnss_pc = "read"
    /\ rx_line # <<>>
    /\ rx_line' = Tail(rx_line)
    /\ UNCHANGED <<inputs, timeVars,
                   chunkVars, beaconVars>>
    /\ LET buf == [nmea_buf EXCEPT ![buf_idx + 1] = Head(rx_line)]
           acc == Append(appended, Head(rx_line))
       IN  IF nmea_sentence_terminated(buf, buf_idx)
           THEN Deliver(buf, acc, "frame", TRUE)
           ELSE IF read_slice_in_bounds(buf_idx + 1)
           THEN /\ nmea_buf' = buf
                /\ buf_idx' = buf_idx + 1
                /\ appended' = acc
                /\ stored' = stored \cup {buf_idx + 1}
                /\ pre_error' = pre_error \ {buf_idx + 1}
                /\ last_op' = "byte"
                /\ UNCHANGED <<supVars, gattVars, status, time_attr, gnss_pc,
                               tx_writes, handed, handed_acc, adapterVars, countVars>>
           ELSE Halt("index_out_of_bounds")

\* read_until_idle returns Ok(0): the line went idle, nothing was stored
RxIdle ==
    /\ Settled
    /\ gnss_pc = "read"
    /\ rx_line = <<>>
    /\ UNCHANGED <<inputs, rx_line, timeVars,
                   chunkVars, beaconVars>>
    /\ Deliver(nmea_buf, appended, "idle", FALSE)

gnss_breaks_on_error(op) == op \in {"error", "unsent"}

\* the loop of gnss_notify_task has no break and no return: after a read
\* error it continues, after a notify it comes round to the next read
gnss_breaks(op) == FALSE

\* read_until_idle returns Err(e): logged, buf_idx = 0, continue
RxError ==
    /\ Settled
    /\ gnss_pc = "read"
    /\ inputs < MaxInputs
    /\ inputs' = inputs + 1
    /\ gnss_pc' = IF gnss_breaks("error") THEN "done" ELSE gnss_pc
    /\ rx_line' = IF rx_line = <<>> THEN <<>> ELSE Tail(rx_line)
    /\ buf_idx' = 0
    /\ appended' = <<>>
    /\ pre_error' = stored
    /\ last_op' = "error"
    /\ UNCHANGED <<supVars, gattVars, status, time_attr, nmea_buf,
                   tx_writes, handed, handed_acc, stored, adapterVars, countVars,
                   timeVars,
                   chunkVars, beaconVars>>

\* a send that is tried again when it has failed
notify_retried_on_failure(sent) == ~sent

\* `let _ =` drops the result of notify: nothing looks at a failure
notify_retried(sent) == FALSE

\* notify(...).await completes, the record's one send having gone out or not
NotifyDone(sent) ==
    /\ Settled
    /\ gnss_pc = "notify"
    /\ IF notify_retried(sent)
       THEN /\ gnss_pc' = "notify"
            /\ n_notify' = n_notify + 1
            /\ UNCHANGED <<notify_arg, notified>>
       ELSE /\ gnss_pc' = IF gnss_breaks(IF sent THEN "sent" ELSE "unsent")
                          THEN "done"
                          ELSE "read"
            /\ notified' = IF sent THEN notify_arg ELSE notified
            /\ notify_arg' = <<>>
            /\ UNCHANGED n_notify
    /\ UNCHANGED <<supVars, inputs, gattVars, status, time_attr, rx_line,
                   tx_writes, framerVars, countVars, timeVars,
                   chunkVars, beaconVars>>

(***************************************************************************)
(* The GNSS module and the UART.                                           *)
(***************************************************************************)
\* the module sends a chunk
GnssEmit(c) ==
    /\ sup # "fatal"
    /\ rx_line = <<>>
    /\ inputs < MaxInputs
    /\ inputs' = inputs + 1
    /\ rx_line' = c
    /\ UNCHANGED <<supVars, gattVars, status, time_attr, gnss_pc, tx_writes,
                   framerVars, adapterVars, countVars, timeVars,
                   chunkVars, beaconVars>>

\* bytes that arrive while no framer exists are lost
RxDrop ==
    /\ sup # "fatal"
    /\ gnss_pc = "none"
    /\ rx_line # <<>>
    /\ rx_line' = <<>>
    /\ UNCHANGED <<supVars, inputs, gattVars, status, time_attr, gnss_pc, tx_writes,
                   framerVars, adapterVars, countVars, timeVars,
                   chunkVars, beaconVars>>

(***************************************************************************)
(* The system.                                                             *)
(***************************************************************************)
Next ==
    \/ AdvertiseAccept
    \/ AdvertiseFail
    \/ EpochEnd
    \/ RunnerFail
    \/ \E ev \in PeerRequests \cup {Disconnected}, accepted \in BOOLEAN :
          GattNext(ev, accepted)
    \/ GattSendDone
    \/ GnssEnableDone
    \/ GnssEnableFail
    \/ RxByte
    \/ RxIdle
    \/ RxError
    \/ \E sent \in BOOLEAN : NotifyDone(sent)
    \/ \E c \in SerialChunks : GnssEmit(c)
    \/ RxDrop

Spec == Init /\ [][Next]_vars

\* run_ble goes from select's return to the next advertise call without
\* suspending, so the step is taken whenever it is enabled
FairSpec == Spec /\ WF_vars(EpochEnd)

(***************************************************************************)
(* CurrentTime on its own: a date-time is encoded once.                    *)
(***************************************************************************)
\* years inside and outside u16, and the ends of every other field
DateTimes ==
    [year : {-1, 0, 1, 255, 256, 1970, 2023, 65535, 67559},
     month : {1, 7, 12}, day : {1, 4, 31},
     hour : {0, 20, 23}, minute : {0, 15, 59}, second : {0, 30, 59}]

InitTime ==
    /\ InitSystem
    /\ dt \in DateTimes
    /\ ct = <<>>
    /\ feed = <<>>
    /\ by_byte = NoOutcome
    /\ by_bulk = NoOutcome
    /\ BeaconOff

\* CurrentTime::from(&dt).to_bytes()
Encode ==
    /\ ct = <<>>
    /\ ct' = to_bytes(CurrentTime_from(dt))
    /\ UNCHANGED <<supVars, inputs, gattVars, status, time_attr, gnss_pc, rx_line,
                   tx_writes, framerVars, adapterVars, countVars, dt, chunkVars, beaconVars>>

NextTime == Encode

SpecTime == InitTime /\ [][NextTime]_vars

(***************************************************************************)
(* The framer on its own: the loop of gnss_notify_task as a function of    *)
(* the bytes on the serial line, with no idle gap and no read error.       *)
(***************************************************************************)
\* a read into all that is left of the buffer
read_slice_len_rest(idx) == NMEA_BUF_LEN - idx

\* &mut nmea_buf[buf_idx..buf_idx + 1]: a read stores one byte at most
read_slice_len(idx) == (idx + 1) - idx

\* one read_until_idle of a line that has bytes, and the Ok arm after it:
\* the bytes that fit the slice are stored at buf_idx, then the terminator
\* test either emits the frame and resets buf_idx or adds 1 to it
framer_read(st, line) ==
    IF ~read_slice_in_bounds(st.idx)
    THEN [st |-> [st EXCEPT !.halted = TRUE], rest |-> line]
    ELSE
    LET len == read_slice_len(st.idx)
        k == IF Len(line) < len THEN Len(line) ELSE len
        buf == [i \in 1..NMEA_BUF_LEN |->
                   IF i > st.idx /\ i <= st.idx + k THEN line[i - st.idx]
                   ELSE st.buf[i]]
        rest == SubSeq(line, k + 1, Len(line))
    IN  IF nmea_sentence_terminated(buf, st.idx)
        THEN [st |-> [st EXCEPT !.buf = buf, !.idx = 0,
                                !.frames = Append(@, frame_slice(buf, st.idx))],
              rest |-> rest]
        ELSE [st |-> [st EXCEPT !.buf = buf, !.idx = @ + 1], rest |-> rest]

\* the loop runs until the line is empty
RECURSIVE framer_drain(_, _)
framer_drain(st, line) ==
    IF line = <<>> \/ st.halted THEN st
    ELSE LET r == framer_read(st, line) IN framer_drain(r.st, r.rest)

\* the chunks arrive one after the other, each read up before the next
RECURSIVE framer_feed(_, _)
framer_feed(st, chunks) ==
    IF chunks = <<>> THEN st
    ELSE framer_feed(framer_drain(st, Head(chunks)), Tail(chunks))

\* longest byte sequence fed to the framer
MaxFeedLen == 6

\* the bytes the terminator test tells apart, and one other
FeedBytes == {65, CR, LF}

Feeds == UNION {[1..n -> FeedBytes] : n \in 0..MaxFeedLen}

InitChunk ==
    /\ InitSystem
    /\ dt = NoDateTime
    /\ ct = <<>>
    /\ feed \in Feeds
    /\ by_byte = NoOutcome
    /\ by_bulk = NoOutcome
    /\ BeaconOff

\* every byte of feed arrives on its own
FeedByByte ==
    /\ ~by_byte.done
    /\ by_byte' = Outcome(framer_feed(NoRun, [i \in 1..Len(feed) |-> <<feed[i]>>]))
    /\ UNCHANGED <<supVars, inputs, gattVars, status, time_attr, gnss_pc, rx_line,
                   tx_writes, framerVars, adapterVars, countVars, timeVars, feed,
                   by_bulk, beaconVars>>

\* feed arrives as one chunk
FeedBulk ==
    /\ ~by_bulk.done
    /\ by_bulk' = Outcome(framer_feed(NoRun, <<feed>>))
    /\ UNCHANGED <<supVars, inputs, gattVars, status, time_attr, gnss_pc, rx_line,
                   tx_writes, framerVars, adapterVars, countVars, timeVars, feed,
                   by_byte, beaconVars>>

NextChunk == FeedByByte \/ FeedBulk

SpecChunk == InitChunk /\ [][NextChunk]_vars

(***************************************************************************)
(* The liveness beacon (src/src/bin/ble_beacon.rs), checked on its own.    *)
(* A u32 is the pair <<high, low>> of its 16-bit halves and a u64 the four *)
(* 16-bit limbs, most significant first, so that the arithmetic keeps the  *)
(* width of the code's integers.                                           *)
(***************************************************************************)
Limb == 256 * 256

MaxUpdates == 3

\* u32::saturating_add with a small operand
saturating_add_u32(a, n) ==
    IF a[1] = Limb - 1 /\ a[2] + n >= Limb
    THEN <<Limb - 1, Limb - 1>>
    ELSE <<a[1] + ((a[2] + n) \div Limb), (a[2] + n) % Limb>>

\* u32::wrapping_add with a small operand
wrapping_add_u32(a, n) ==
    <<(a[1] + ((a[2] + n) \div Limb)) % Limb, (a[2] + n) % Limb>>

\* the u64 millisecond clock moved on by d < Limb
add_ms(e, d) ==
    LET s4 == e[4] + d
        s3 == e[3] + (s4 \div Limb)
        s2 == e[2] + (s3 \div Limb)
        s1 == e[1] + (s2 \div Limb)
    IN  <<s1 % Limb, s2 % Limb, s3 % Limb, s4 % Limb>>

\* `as u32` of a u64: the low 32 bits
as_u32(e) == <<e[3], e[4]>>

\* u32::to_be_bytes
to_be_bytes_u32(a) == <<a[1] \div 256, a[1] % 256, a[2] \div 256, a[2] % 256>>

\* make_adv_payload, given what Instant::now().duration_since(start)
\* .as_millis() returns
make_adv_payload(elapsed, count) ==
    to_be_bytes_u32(count) \o to_be_bytes_u32(as_u32(elapsed))

\* the least time the timer sleeps, and what the push before it can add
TimerDelays == {10, 11, 25}

\* The head of the update loop after `updates` rounds of at least 10 ms:
\* 255, 65535, 2^32 - 2 and 2^32 - 1 rounds, the clock at ten times that.
LoopHeads ==
    { [count |-> <<0, 255>>, now |-> <<0, 0, 0, 2550>>],
      [count |-> <<0, Limb - 1>>, now |-> <<0, 0, 9, Limb - 10>>],
      [count |-> <<Limb - 1, Limb - 2>>, now |-> <<0, 9, Limb - 1, Limb - 20>>],
      [count |-> <<Limb - 1, Limb - 1>>, now |-> <<0, 9, Limb - 1, Limb - 10>>] }

ClockJitter == {0, 1, 7}

InitBeacon ==
    /\ InitSystem
    /\ dt = NoDateTime
    /\ ct = <<>>
    /\ feed = <<>>
    /\ by_byte = NoOutcome
    /\ by_bulk = NoOutcome
    /\ n_updates = 0
    /\ \/ /\ beacon_pc = "advertise"
          /\ update_count = <<0, 0>>
          /\ now_ms = <<0, 0, 0, 0>>
          /\ adv_data = make_adv_payload(now_ms, update_count)
          /\ adv_live = <<>>
          /\ adv_starts = 0
       \/ \E h \in LoopHeads, j \in ClockJitter :
              /\ beacon_pc = "timer"
              /\ update_count = h.count
              /\ now_ms = add_ms(h.now, j)
              /\ adv_data = make_adv_payload(now_ms, update_count)
              /\ adv_live = adv_data
              /\ adv_starts = 1

sensorVars ==
    <<supVars, inputs, gattVars, status, time_attr, gnss_pc, rx_line, tx_writes,
      framerVars, adapterVars, countVars, timeVars, chunkVars>>

\* peripheral.advertise(..).await returned Ok: the session is on air with the
\* data encoded before the loop
BeaconAdvertise ==
    /\ beacon_pc = "advertise"
    /\ beacon_pc' = "timer"
    /\ adv_starts' = adv_starts + 1
    /\ adv_live' = adv_data
    /\ UNCHANGED <<sensorVars, update_count, adv_data, now_ms, n_updates>>

\* peripheral.advertise(..).await returned Err: unwrap panics
BeaconAdvertiseFail ==
    /\ beacon_pc = "advertise"
    /\ beacon_pc' = "halted"
    /\ UNCHANGED <<sensorVars, update_count, adv_data, adv_live, adv_starts,
                   now_ms, n_updates>>

\* the timer fired: count, re-encode, and wait for update_adv_data
BeaconUpdate(d) ==
    /\ beacon_pc = "timer"
    /\ n_updates < MaxUpdates
    /\ now_ms' = add_ms(now_ms, d)
    /\ update_count' = wrapping_add_u32(update_count, 1)
    /\ adv_data' = make_adv_payload(now_ms', update_count')
    /\ beacon_pc' = "push"
    /\ n_updates' = n_updates + 1
    /\ UNCHANGED <<sensorVars, adv_live, adv_starts>>

\* update_adv_data(..).await returned Ok
BeaconPushDone ==
    /\ beacon_pc = "push"
    /\ beacon_pc' = "timer"
    /\ adv_live' = adv_data
    /\ UNCHANGED <<sensorVars, update_count, adv_data, adv_starts, now_ms,
                   n_updates>>

\* update_adv_data(..).await returned Err: unwrap panics
BeaconPushFail ==
    /\ beacon_pc = "push"
    /\ beacon_pc' = "halted"
    /\ UNCHANGED <<sensorVars, update_count, adv_data, adv_live, adv_starts,
                   now_ms, n_updates>>

NextBeacon ==
    \/ BeaconAdvertise
    \/ BeaconAdvertiseFail
    \/ \E d \in TimerDelays : BeaconUpdate(d)
    \/ BeaconPushDone
    \/ BeaconPushFail

SpecBeacon == InitBeacon /\ [][NextBeacon]_vars

(***************************************************************************)
(* Properties.                                                             *)
(***************************************************************************)
EndsWithCrLf(s) == Len(s) >= 2 /\ s[Len(s) - 1] = CR /\ s[Len(s)] = LF

\* C1: once the dispatcher has observed PeerDisconnected, run_ble calls
\* advertise again and no longer holds the epoch's connection, whatever the
\* framer was waiting for, in every epoch; only run_ble's own step is needed.
C1_ResumesAdvertising ==
    (gatt_pc = "done") ~> (sup = "advertising" /\ conn = 0 /\ gnss_pc = "none")

\* the disconnect of a later connection is observed while the framer waits for
\* a byte in the middle of a frame: the time in the table was notified on a
\* connection before this one
C1_Witness ==
    /\ gatt_pc = "done" /\ gnss_pc = "read" /\ buf_idx > 0
    /\ n_notify = 0 /\ time_attr # [i \in 1..10 |-> 0]

\* C2: when the dispatcher is about to take the next event, the Read or
\* Write event it took last has received exactly one reply.
C2_ExactlyOneReply ==
    (gatt_pc = "next" /\ gatt_ev.kind \in {"Read", "Write"}) => replies = 1

\* C3: 82 bytes without a terminator never halt the device; the framer
\* resets and goes on.
C3_OverflowDoesNotHalt == panic # "index_out_of_bounds"

\* C4: a frame delivered on an idle timeout is exactly the bytes stored
\* since the last reset, and the fill index is 0 afterwards.
C4_IdleFrameIsWhatAccumulated ==
    last_op = "idle" => (handed = handed_acc /\ buf_idx = 0)

\* C5: a received byte completes a frame exactly when the bytes stored
\* since the last reset end in CR LF; the frame is all of those bytes, the
\* fill index is then 0, and bytes from before a reset never count.
C5_FrameExactlyOnCrLf ==
    /\ last_op = "frame" =>
          (handed = handed_acc /\ EndsWithCrLf(handed) /\ buf_idx = 0
           /\ appended = <<>>)
    /\ last_op = "byte" =>
          (~EndsWithCrLf(appended) /\ buf_idx = Len(appended)
           /\ appended = SubSeq(nmea_buf, 1, buf_idx))

\* a frame ending in CR LF was delivered and the LF that follows it is the
\* first byte of the next frame, not a terminator
C5_Witness ==
    /\ last_op = "byte"
    /\ appended = <<LF>>
    /\ n_frames >= 1
    /\ EndsWithCrLf(handed)

\* C6: of the terminated frames handed to the decoder, exactly the accepted
\* ones reach send_nmea_msg, and after each frame the framer is still
\* running with fill index 0.
C6_AdaptedIsFramesMinusRejected ==
    /\ n_adapted = n_frames - n_rejected
    /\ last_op = "frame" =>
          (buf_idx = 0 /\ gnss_pc \in {"read", "notify"} /\ sup = "connected")

\* an accepted frame has just been framed after a rejected one
C6_Witness ==
    /\ last_op = "frame"
    /\ n_frames = 2
    /\ n_rejected = 1
    /\ n_adapted = 1
    /\ parse_bytes(handed).ok

\* C7 as stated: the sentence ending *6B is notified as 07 E7 07 04 14 0F 1E 00 00 00.
C7_SpecScenario ==
    (last_op = "frame" /\ handed = ZDA_6B_SENTENCE) =>
        time_attr = <<7, 231, 7, 4, 20, 15, 30, 0, 0, 0>>

\* C7 amended: the sentence with the checksum 63 yields the time record
\* 2023-07-04 20:15:30 and a notify call on Current Time with the payload
\* E7 07 07 04 14 0F 1E 00 00 00; the sentence ending *6B is rejected and
\* nothing is notified for it.
C7_TimeSentenceNotified ==
    /\ (last_op = "frame" /\ handed = ZDA_SENTENCE) =>
          /\ parse_bytes(handed) =
                [ok |-> TRUE, kind |-> "ZDA", has_dt |-> TRUE, year |-> 2023,
                 month |-> 7, day |-> 4, hour |-> 20, minute |-> 15, second |-> 30]
          /\ n_notify >= 1
          /\ time_attr = <<231, 7, 7, 4, 20, 15, 30, 0, 0, 0>>
          /\ gnss_pc = "notify" => notify_arg = <<231, 7, 7, 4, 20, 15, 30, 0, 0, 0>>
          /\ gnss_pc = "read" => notified \in {<<>>, <<231, 7, 7, 4, 20, 15, 30, 0, 0, 0>>}
    /\ (last_op = "frame" /\ handed = ZDA_6B_SENTENCE) =>
          (~parse_bytes(handed).ok /\ gnss_pc = "read" /\ notify_arg = <<>>)

\* the time sentence was framed in a connection and its notification sent
C7_Witness ==
    /\ last_op = "frame"
    /\ handed = ZDA_SENTENCE
    /\ conn > 0
    /\ notified = <<231, 7, 7, 4, 20, 15, 30, 0, 0, 0>>

\* C8: for a year in 0..65535 the encoding has 10 bytes, year, month, day,
\* hours, minutes and seconds are read back from bytes 0..6, and bytes 7..9
\* are zero.
C8_RoundTrip ==
    (ct # <<>> /\ dt.year \in 0..65535) =>
        /\ Len(ct) = 10
        /\ \A i \in 1..10 : ct[i] \in 0..255
        /\ ct[1] + (256 * ct[2]) = dt.year
        /\ ct[3] = dt.month
        /\ ct[4] = dt.day
        /\ ct[5] = dt.hour
        /\ ct[6] = dt.minute
        /\ ct[7] = dt.second
        /\ ct[8] = 0 /\ ct[9] = 0 /\ ct[10] = 0

\* a date-time whose year needs both bytes has been encoded
C8_Witness ==
    ct # <<>> /\ dt.year = 2023 /\ dt.month = 7 /\ dt.day = 4 /\ dt.second = 30

\* C9: the reply to a Read of Status carries the value of the Write to
\* Status received before it in the same epoch.
C9_ReadReflectsWrite ==
    (gatt_ev.kind = "Read" /\ gatt_ev.handle = "status" /\ replies = 1
        /\ status_written # -1)
    => read_value = <<status_written>>

\* C10: gatt_events_task has returned only if the event it took last is
\* Disconnected.
C10_ReturnsOnlyOnDisconnect ==
    gatt_pc = "done" => gatt_ev = Disconnected

\* the task has returned on a disconnect, after requests it had gone on from
C10_Witness ==
    gatt_pc = "done" /\ gatt_ev = Disconnected /\ inputs = MaxInputs

\* C11: at most one connection is live; while run_ble is in advertise it
\* holds no connection and no task of an earlier epoch exists, and the
\* dispatcher and the framer exist only together with the one connection.
C11_SingleLiveConnection ==
    /\ conn \in {0, 1}
    /\ sup = "advertising" => (conn = 0 /\ gatt_pc = "none" /\ gnss_pc = "none")
    /\ (gatt_pc # "none" \/ gnss_pc # "none") => (conn = 1 /\ sup = "connected")

\* both tasks of a later epoch run on its connection: the time in the table
\* was notified in an epoch before this one
C11_Witness ==
    /\ sup = "connected" /\ conn = 1
    /\ gatt_pc = "next" /\ gnss_pc = "read"
    /\ n_notify = 0 /\ time_attr # [i \in 1..10 |-> 0]

\* C12: once advertise or the link runner has returned an error no step is
\* taken any more: the device stays in Fatal and does not advertise, accept,
\* dispatch, read a serial byte or notify again.
C12_FatalIsAbsorbing ==
    [][(panic \in {"advertise", "runner"}) => (sup = "fatal" /\ vars' = vars)]_vars

\* advertise has failed while bytes of the module wait on the serial line
C12_Witness ==
    sup = "fatal" /\ panic = "advertise" /\ rx_line # <<>>

\* C13: the device is in Fatal only because advertise or the link runner
\* failed, never because of something on the serial side or a failed notify.
C13_FatalOnlyFromStackFault ==
    sup = "fatal" => panic \in {"advertise", "runner"}

\* C14: the frames the framer emits for a byte sequence are the same
\* whether the bytes arrive one at a time or as one chunk.
C14_ChunkingInvariance ==
    (by_byte.done /\ by_bulk.done) =>
        (by_byte.frames = by_bulk.frames /\ by_byte.halted = by_bulk.halted)

\* a sequence holding two frames has been framed both ways
C14_Witness ==
    by_byte.done /\ by_bulk.done /\ Len(by_bulk.frames) = 2

\* C15: after a read error the fill index is 0 and the framer reads on
\* with nothing handed over, and no frame delivered later holds a byte that
\* was received before the error.
C15_ReadErrorDropsPartial ==
    /\ last_op = "error" => (buf_idx = 0 /\ appended = <<>> /\ gnss_pc = "read")
    /\ last_op \in {"frame", "idle"} => (1..Len(handed)) \cap pre_error = {}

\* C16: every time record given to the adapter has led to exactly one notify
\* call, whether or not earlier sends went out; while the call is awaited and
\* after it the fill index is 0, and nothing of a finished call is kept for
\* a later try.
C16_OneNotifyPerRecord ==
    /\ n_notify = n_time
    /\ gnss_pc = "notify" => (buf_idx = 0 /\ notify_arg # <<>>)
    /\ (gnss_pc = "read" /\ last_op \in {"frame", "idle"}) =>
          (buf_idx = 0 /\ notify_arg = <<>>)

\* the notify call of a second time record is awaited after the send of the
\* first one has failed
C16_Witness ==
    gnss_pc = "notify" /\ n_notify = 2 /\ n_time = 2 /\ notified = <<>>

\* C17: a notify call is started, and the Current Time value in the table
\* changed, only by a step that hands over a frame the decoder accepts as a
\* ZDA record with a date and a time; any other record changes neither.
C17_SkipUnlessTimeRecord ==
    [][(\/ n_notify' > n_notify
        \/ time_attr' # time_attr
        \/ (gnss_pc' = "notify" /\ gnss_pc # "notify"))
       => (/\ parse_bytes(handed').ok
           /\ parse_bytes(handed').kind = "ZDA"
           /\ parse_bytes(handed').has_dt
           /\ handed' = frame_slice(nmea_buf', buf_idx))]_vars

\* a ZDA sentence with empty fields was accepted by the decoder and skipped
\* by the adapter
C17_Witness ==
    /\ last_op = "frame"
    /\ parse_bytes(handed).ok
    /\ parse_bytes(handed).kind = "ZDA"
    /\ ~parse_bytes(handed).has_dt
    /\ gnss_pc = "read"
    /\ n_notify = 0
    /\ time_attr = [i \in 1..10 |-> 0]

\* C18: the framer of an epoch starts with fill index 0 and a buffer of its
\* own, and every byte of a frame it delivers was stored in this epoch or
\* is the 0 its buffer started with: nothing of an earlier epoch's partial
\* frame is delivered.
C18_NothingCrossesEpochs ==
    /\ (gnss_pc = "read" /\ last_op = "none") =>
          (buf_idx = 0 /\ appended = <<>> /\ nmea_buf = ZeroBuf)
    /\ last_op \in {"frame", "idle"} =>
          \A p \in 1..Len(handed) : p \in stored \/ handed[p] = 0

\* in an epoch after one in which a time sentence was framed, the framer has
\* delivered a frame without having stored a byte
C18_Witness ==
    /\ last_op = "idle"
    /\ stored = {}
    /\ handed = <<0>>
    /\ n_notify = 0
    /\ time_attr # [i \in 1..10 |-> 0]

\* C19: while no connection is held neither task exists and nothing of
\* their work has happened: no byte stored, no frame handed over, no event
\* taken or replied to, no notify call; a notify call is awaited only on
\* the connection of the running epoch.
C19_TasksOnlyWhileConnected ==
    /\ conn = 0 =>
          /\ gatt_pc = "none" /\ gnss_pc = "none"
          /\ gatt_ev = NoEvent /\ replies = 0
          /\ buf_idx = 0 /\ stored = {} /\ last_op = "none" /\ handed = <<>>
          /\ n_frames = 0 /\ n_notify = 0 /\ notify_arg = <<>>
    /\ (gnss_pc = "notify" \/ notify_arg # <<>>) => (conn = 1 /\ sup = "connected")

\* run_ble advertises after an epoch in which a time was notified, and bytes
\* of the module wait on the serial line with no task to read them
C19_Witness ==
    /\ sup = "advertising" /\ conn = 0
    /\ rx_line # <<>>
    /\ time_attr # [i \in 1..10 |-> 0]

\* C20: whenever the framer reads or notifies, "$PCAS04,3*1A\r\n" has been
\* written to the module once in this epoch and nothing else has; before
\* the write nothing has been read, and the first read follows the write
\* with no wait for an answer in between.
C20_EnableOncePerEpoch ==
    /\ gnss_pc \in {"none", "enable", "read", "notify"}
    /\ gnss_pc \in {"read", "notify"} =>
          tx_writes = << <<36, 80, 67, 65, 83, 48, 52, 44, 51, 42, 49, 65, 13, 10>> >>
    /\ gnss_pc \in {"none", "enable"} =>
          (tx_writes = <<>> /\ stored = {} /\ last_op = "none")

\* in a later epoch the framer has stored the first byte of a frame after
\* the one write of the command
C20_Witness ==
    /\ gnss_pc = "read" /\ last_op = "byte" /\ Len(appended) = 1
    /\ Len(tx_writes) = 1
    /\ n_notify = 0
    /\ time_attr # [i \in 1..10 |-> 0]


\* what a receiver reads out of the 8-byte vendor payload: the counter and the
\* elapsed milliseconds, each as <<high half, low half>>
PayloadCounter(p) == <<p[1] * 256 + p[2], p[3] * 256 + p[4]>>
PayloadElapsed(p) == <<p[5] * 256 + p[6], p[7] * 256 + p[8]>>

\* b = (a + 1) mod 2^32 on the halves
IsNextU32(a, b) ==
    \/ a[2] < 65535 /\ b = <<a[1], a[2] + 1>>
    \/ a[2] = 65535 /\ a[1] < 65535 /\ b = <<a[1] + 1, 0>>
    \/ a = <<65535, 65535>> /\ b = <<0, 0>>

LessU32(a, b) == a[1] < b[1] \/ (a[1] = b[1] /\ a[2] < b[2])

\* C21: in the beacon variant the advertising session is started once and
\* never started again; every beacon update adds exactly 1 to the update
\* counter modulo 2^32 and re-encodes the 8-byte vendor payload as the counter
\* in 4 big-endian bytes followed by the elapsed milliseconds, truncated to 32
\* bits, in 4 big-endian bytes; every change of the advertised payload is a
\* push of that re-encoded payload into the running session, its counter one
\* more than the counter advertised before, so larger until it wraps to 0.
C21_BeaconCounterPayload ==
    [][ /\ adv_starts' <= 1
        /\ (adv_starts = 1 => adv_starts' = 1)
        /\ ((beacon_pc = "timer" /\ beacon_pc' = "push") =>
                /\ IsNextU32(update_count, update_count')
                /\ Len(adv_data') = 8
                /\ \A i \in 1..8 : adv_data'[i] \in 0..255
                /\ PayloadCounter(adv_data') = update_count'
                /\ PayloadElapsed(adv_data') = <<now_ms'[3], now_ms'[4]>>)
        /\ ((adv_live # <<>> /\ adv_live' # adv_live) =>
                /\ adv_starts' = adv_starts
                /\ adv_live' = adv_data
                /\ IsNextU32(PayloadCounter(adv_live), PayloadCounter(adv_live'))
                /\ (PayloadCounter(adv_live) # <<65535, 65535>> =>
                        LessU32(PayloadCounter(adv_live), PayloadCounter(adv_live')))
                /\ (PayloadCounter(adv_live) = <<65535, 65535>> =>
                        PayloadCounter(adv_live') = <<0, 0>>))
      ]_vars

\* the counter has wrapped from 2^32 - 1 to 0 in the one session, the clock
\* past 2^32 ms, and the payload with counter 0 is on air
C21_Witness ==
    /\ beacon_pc = "timer"
    /\ adv_starts = 1
    /\ n_updates >= 1
    /\ update_count = <<0, 0>>
    /\ now_ms[2] >= 1
    /\ adv_live = adv_data
    /\ PayloadCounter(adv_live) = <<0, 0>>


\* C22: gnss_notify_task never returns: no step leaves the framer finished.
\* A connection epoch ends either with run_ble advertising again, and then
\* the dispatcher has returned on the peer's disconnect while the framer was
\* still running, or with the system fatal on a panic.
C22_FramerNeverReturns ==
    [][ /\ gnss_pc' # "done"
        /\ ((sup = "connected" /\ sup' # "connected") =>
                \/ /\ sup' = "advertising"
                   /\ gatt_pc = "done"
                   /\ gatt_ev = Disconnected
                   /\ gnss_pc \in {"enable", "read", "notify"}
                \/ /\ sup' = "fatal"
                   /\ panic' # "none")
      ]_vars

\* the framer has dropped a frame on a read error and waits in the next read
\* when the dispatcher returns on the disconnect
C22_Witness ==
    /\ sup = "connected"
    /\ gatt_pc = "done"
    /\ gatt_ev = Disconnected
    /\ gnss_pc = "read"
    /\ last_op = "error"

====
